---- MODULE Spec2Model ----
(***************************************************************************)
(* Model of openweathermapy.core: the client glue (get, wrap_get,          *)
(* Decorator, the endpoint functions) and the wrappers it builds           *)
(* (DataBlock, WeatherData), together with the nested accessor of          *)
(* openweathermapy.utils that core.py imports.                             *)
(*                                                                         *)
(* Python objects are tagged tuples, the first element being the type:     *)
(*   <<"none">>  <<"int", n>>  <<"float", n>>  <<"str", s>>                *)
(*   <<"tuple", a, b>>  <<"dict", f>>  <<"list", s>>                       *)
(*   <<"NestedDict", d>>  <<"WeatherData", d>>  <<"DataBlock", items, info>>*)
(* where f is a function from keys (strings) to objects.                   *)
(***************************************************************************)
EXTENDS Integers, Sequences, FiniteSets, TLC

VARIABLES
    appendix,    \* the appendix the wrapped function was built with
    url,         \* closure variable `url` of wrap_get
    settings,    \* closure variable `settings` of wrap_get
    settings0,   \* ghost: `settings` as passed to wrap_get
    call,        \* the most recent call: function name and arguments
    transport,   \* what the transport answered in that call
    requests,    \* requests handed to the transport by the most recent call
    result,      \* how the most recent call ended
    parsed,      \* ghost: the value json.loads returned in that call
    heap,        \* that same object as it is when the call has ended
    acc,         \* accessor under test (utils.NestedDict)
    path,        \* dotted path last looked up
    got          \* outcome of that lookup

vars == <<appendix, url, settings, settings0, call, transport,
          requests, result, parsed, heap, acc, path, got>>

clientVars == <<appendix, url, settings, settings0, call, transport,
                requests, result, parsed, heap>>

accVars == <<acc, path, got>>

-----------------------------------------------------------------------------
(* Bounds of the model *)

MaxId == 1
MaxRecords == 2
MaxGroup == 2
MaxPathLen == 4

-----------------------------------------------------------------------------
(* Python objects *)

None == <<"none">>
PyInt(n) == <<"int", n>>
PyFloat(n) == <<"float", n>>
PyStr(s) == <<"str", s>>
PyTuple(a, b) == <<"tuple", a, b>>
PyDict(f) == <<"dict", f>>
PyList(s) == <<"list", s>>

EmptyDict == [k \in {} |-> None]

TypeOf(v) == v[1]

\* Python truth value of an object, as tested by `if loc:` / `if settings:`
Truthy(v) ==
    CASE TypeOf(v) = "none" -> FALSE
      [] TypeOf(v) = "int" -> v[2] # 0
      [] TypeOf(v) = "float" -> v[2] # 0
      [] TypeOf(v) = "str" -> v[2] # ""
      [] TypeOf(v) = "tuple" -> TRUE
      [] TypeOf(v) = "dict" -> DOMAIN v[2] # {}
      [] TypeOf(v) = "list" -> Len(v[2]) > 0
      [] OTHER -> TRUE

\* d[k] = v on a dict
SetItem(d, k, v) == [x \in DOMAIN d \cup {k} |-> IF x = k THEN v ELSE d[x]]

\* d.update(e)
Update(d, e) ==
    [x \in DOMAIN d \cup DOMAIN e |-> IF x \in DOMAIN e THEN e[x] ELSE d[x]]

\* the dict left behind by d.pop(k)
Pop(d, k) == [x \in DOMAIN d \ {k} |-> d[x]]

-----------------------------------------------------------------------------
(* Constants of core.py *)

BASE_URL == "http://api.openweathermap.org/data/2.5/"

\* names bound at module level of core.py
ModuleGlobals ==
    {"functools", "json", "utils", "__author__", "__license__", "CITIES",
     "KASSEL_LATITUDE", "KASSEL_LONGITUDE", "KASSEL_LOC", "BASE_URL",
     "URL_ICON", "get", "wrap_get", "Decorator", "get_icon_url", "DataBlock",
     "WeatherData", "get_current", "get_current_for_group", "find_city",
     "find_cities_by_geo_coord", "get_current_from_station",
     "find_stations_by_geo_coord", "get_forecast_hourly",
     "get_forecast_daily", "get_history"}

-----------------------------------------------------------------------------
(* Inputs *)

Ids == {0, MaxId}

\* a location: omitted, a city id, a city name, or coordinates (lat, lon)
Locs ==
    {None} \cup {PyInt(i) : i \in Ids} \cup {PyStr(""), PyStr("Kassel,de")}
           \cup {PyTuple(PyFloat(0), PyFloat(9))}

\* keyword options a caller may pass
OptionKeys == {"units", "id", "cnt"}
CallerValue == PyStr("caller")
ParamsOver(keys) == UNION {[K -> {CallerValue}] : K \in SUBSET keys}

\* settings handed to wrap_get / Decorator
SettingsKeys == {"units", "loc", "id"}
SettingsValue == PyStr("settings")
SettingsChoices ==
    {None, PyDict(EmptyDict)}
        \cup {PyDict([x \in {k} |-> SettingsValue]) : k \in SettingsKeys}

DataTypes == {None, PyStr("WeatherData")}

\* parsed response bodies
WeatherJson ==
    PyDict([main |-> PyDict([temp |-> PyFloat(280)]), wind |-> PyDict([speed |-> PyFloat(1)])])
Record(i) == PyDict([dt |-> PyInt(i)])
ListJson(n) ==
    PyDict([list |-> PyList([i \in 1..n |-> Record(i)]), city |-> PyDict([id |-> PyInt(99)])])
JsonValues == {WeatherJson} \cup {ListJson(n) : n \in {0, MaxRecords}}

\* what the transport does with a request: fail, or answer with a body
TransportOutcomes ==
    {<<"HTTPError">>, <<"body", FALSE, None>>} \cup {<<"body", TRUE, j>> : j \in JsonValues}

-----------------------------------------------------------------------------
(* openweathermapy.utils: the wrappers core.py builds on *)

\* utils.NestedDict(d): an accessor over the mapping d
NestedDict(d) == <<"NestedDict", d>>

\* utils.NestedDictList(l): every record of l wrapped on its own, in order
NestedDictList(l) == [i \in 1..Len(l[2]) |-> NestedDict(l[2][i])]

-----------------------------------------------------------------------------
(* core.py *)

\* json.loads(data.decode("utf-8")) on the body the transport returned
Loads(t) == IF t[2] THEN <<"return", t[3]>> ELSE <<"raise", "ParseError">>

\* mutant of GetRequests: a failed request is issued a second time
GetRequests_Retry(u, p, t) ==
    IF t[1] = "HTTPError" THEN << <<u, p>>, <<u, p>> >> ELSE << <<u, p>> >>

\* get(url, **params): the requests it hands to utils.get_url_response
GetRequests(u, p, t) == << <<u, p>> >>

\* get(url, **params): <<"return", data>> or <<"raise", exception>>
Get(t) == IF t[1] = "HTTPError" THEN <<"raise", "HTTPError">> ELSE Loads(t)

\* mutant of WrapGetParams: a location replaces the caller's options
WrapGetParams_DropOptions(settings_, loc, params) ==
    LET p1 == IF Truthy(loc)
              THEN LET p0 == [x \in {"loc"} |-> loc] IN
                   IF TypeOf(loc) = "int" THEN SetItem(p0, "id", loc)
                   ELSE IF TypeOf(loc) = "tuple"
                        THEN Update(p0, [lat |-> loc[2], lon |-> loc[3]])
                        ELSE SetItem(p0, "q", loc)
              ELSE params
    IN  IF Truthy(settings_) THEN Update(p1, settings_[2]) ELSE p1

\* mutant of WrapGetParams: the raw location is not stored under "loc"
WrapGetParams_NoLocKey(settings_, loc, params) ==
    LET p1 == IF Truthy(loc)
              THEN IF TypeOf(loc) = "int" THEN SetItem(params, "id", loc)
                   ELSE IF TypeOf(loc) = "tuple"
                        THEN Update(params, [lat |-> loc[2], lon |-> loc[3]])
                        ELSE SetItem(params, "q", loc)
              ELSE params
    IN  IF Truthy(settings_) THEN Update(p1, settings_[2]) ELSE p1

\* wrap_get(...).call: the params dict handed to get(url, **params)
WrapGetParams(settings_, loc, params) ==
    LET p1 == IF Truthy(loc)
              THEN LET p0 == SetItem(params, "loc", loc) IN
                   IF TypeOf(loc) = "int" THEN SetItem(p0, "id", loc)
                   ELSE IF TypeOf(loc) = "tuple"
                        THEN Update(p0, [lat |-> loc[2], lon |-> loc[3]])
                        ELSE SetItem(p0, "q", loc)
              ELSE params
    IN  IF Truthy(settings_) THEN Update(p1, settings_[2]) ELSE p1

\* mutant of SettingsAfterCall: settings.update(params) for params.update(settings)
SettingsAfterCall_Written(settings_, params) ==
    IF Truthy(settings_) THEN PyDict(Update(settings_[2], params)) ELSE settings_

\* wrap_get(...).call: the closure's settings once the call is over
\* (params.update(settings) reads settings and writes params)
SettingsAfterCall(settings_, params) == settings_

\* the mapping `data` after data.pop("list")
DataAfterPop(data) == PyDict(Pop(data[2], "list"))

\* mutant of DataBlock: data["list"] is read and left in data
DataBlock_KeepList(data) ==
    <<"DataBlock", NestedDictList(data[2]["list"]), NestedDict(data)>>

\* DataBlock(data), for a data that has the key "list"
DataBlock(data) ==
    <<"DataBlock", NestedDictList(data[2]["list"]), NestedDict(DataAfterPop(data))>>

\* WeatherData(data): NestedDict.__init__ of the subclass
WeatherData(data) == <<"WeatherData", data>>

\* `return data`
ReturnBare(r) ==
    [result |-> r, heap |-> IF r[1] = "return" THEN r[2] ELSE None]

\* `return WeatherData(data)`
ReturnWeatherData(r) ==
    IF r[1] = "raise" THEN [result |-> r, heap |-> None]
    ELSE [result |-> <<"return", WeatherData(r[2])>>, heap |-> r[2]]

\* `return DataBlock(data)`; data.pop("list") raises KeyError without the key
ReturnDataBlock(r) ==
    IF r[1] = "raise" THEN [result |-> r, heap |-> None]
    ELSE IF "list" \notin DOMAIN r[2][2]
         THEN [result |-> <<"raise", "KeyError">>, heap |-> r[2]]
         ELSE [result |-> <<"return", DataBlock(r[2])>>, heap |-> DataAfterPop(r[2])]

RECURSIVE Join(_, _)
\* sep.join(strs)
Join(strs, sep) ==
    IF Len(strs) = 0 THEN ""
    ELSE IF Len(strs) = 1 THEN strs[1]
    ELSE strs[1] \o sep \o Join(Tail(strs), sep)

\* ",".join([str(id_) for id_ in city_ids])
IdStr(city_ids) == Join([i \in 1..Len(city_ids) |-> ToString(city_ids[i])], ",")

\* what one call leaves behind: c the call, app the appendix of its url,
\* sent the params handed to get, t the transport's answer, out the outcome
Performed(c, app, sent, t, out) ==
    /\ call' = c
    /\ transport' = t
    /\ requests' = GetRequests(BASE_URL \o app, sent, t)
    /\ result' = out.result
    /\ parsed' = IF Get(t)[1] = "return" THEN Get(t)[2] ELSE None
    /\ heap' = out.heap

Call(fn, loc, params, extra) ==
    [fn |-> fn, loc |-> loc, params |-> params, extra |-> extra]

-----------------------------------------------------------------------------
(* State after construction: g = wrap_get(appendix, settings) and
   d = Decorator(appendix, settings, data_type) have been built, nothing
   has been called *)

Appendices == {"weather"}

Init ==
    /\ appendix \in Appendices
    /\ url = BASE_URL \o appendix
    /\ settings \in SettingsChoices
    /\ settings0 = settings
    /\ call = Call("", None, EmptyDict, None)
    /\ transport = None
    /\ requests = << >>
    /\ result = None
    /\ parsed = None
    /\ heap = None
    /\ acc = None
    /\ path = << >>
    /\ got = None

-----------------------------------------------------------------------------
(* Calls *)

\* g(loc, **params) for g = wrap_get(appendix, settings)
WrappedCall ==
    \E loc \in Locs, params \in ParamsOver({"units", "id"}), t \in TransportOutcomes :
        /\ Performed(Call("wrap_get.call", loc, params, None), appendix,
                     WrapGetParams(settings, loc, params), t, ReturnBare(Get(t)))
        /\ settings' = SettingsAfterCall(settings, params)
        /\ UNCHANGED <<appendix, url, settings0, accVars>>

get_current ==
    \E city \in Locs, params \in ParamsOver({"units", "id"}), t \in TransportOutcomes :
        /\ Performed(Call("get_current", city, params, None), "weather",
                     WrapGetParams(None, city, params), t, ReturnWeatherData(Get(t)))
        /\ UNCHANGED <<appendix, url, settings, settings0, accVars>>

\* the name `data_type` in Decorator.__call__.call is looked up in the
\* function's locals, the enclosing __call__'s locals, then the module
DecoratedCallLocals == {"args", "kwargs", "params", "data"}
DunderCallLocals == {"self", "f"}
DataTypeIsBound ==
    "data_type" \in DecoratedCallLocals \cup DunderCallLocals \cup ModuleGlobals

\* data_type(data) for the wrappers of this module
Convert(dt, r) ==
    IF dt = PyStr("WeatherData") THEN ReturnWeatherData(r) ELSE ReturnDataBlock(r)

\* Decorator.__call__.call after data = self.get(**params)
DecoratedReturn(dt, r) ==
    IF r[1] = "raise" THEN [result |-> r, heap |-> None]
    ELSE IF ~DataTypeIsBound THEN [result |-> <<"raise", "NameError">>, heap |-> r[2]]
    ELSE IF Truthy(dt) THEN Convert(dt, r) ELSE ReturnBare(r)

\* f(*args, **kwargs) returned fparams; self.get(**fparams) binds the key
\* "loc" to the parameter loc and the other keys to **params
KwLoc(fparams) == IF "loc" \in DOMAIN fparams THEN fparams["loc"] ELSE None
KwParams(fparams) == Pop(fparams, "loc")

FParams ==
    ParamsOver({"units"})
        \cup {SetItem(p, "loc", l) : p \in ParamsOver({"units"}), l \in Locs}

\* d(f)(...) for d = Decorator(appendix, settings, dt)
DecoratedCall ==
    \E dt \in DataTypes, fparams \in FParams, t \in TransportOutcomes :
        /\ Performed(Call("Decorator.call", KwLoc(fparams), KwParams(fparams), dt),
                     appendix,
                     WrapGetParams(settings, KwLoc(fparams), KwParams(fparams)),
                     t, DecoratedReturn(dt, Get(t)))
        /\ settings' = SettingsAfterCall(settings, KwParams(fparams))
        /\ UNCHANGED <<appendix, url, settings0, accVars>>

CityIdLists == {[i \in 1..n |-> i - 1] : n \in {0, 1, MaxGroup}}

get_current_for_group ==
    \E city_ids \in CityIdLists, params \in ParamsOver({"units", "id"}),
       t \in TransportOutcomes :
        LET params1 == SetItem(params, "id", PyStr(IdStr(city_ids))) IN
        /\ Performed(Call("get_current_for_group", None, params, <<"tuple", city_ids>>),
                     "group", WrapGetParams(None, None, params1), t,
                     ReturnDataBlock(Get(t)))
        /\ UNCHANGED <<appendix, url, settings, settings0, accVars>>

Names == {l \in Locs : TypeOf(l) = "str"}
GeoCoords == {l \in Locs : TypeOf(l) \in {"none", "tuple"}}
StationIds == {l \in Locs : TypeOf(l) \in {"none", "int"}}
Counts == {PyInt(10), PyInt(3)}

find_city ==
    \E city \in Names, params \in ParamsOver({"units", "id"}), t \in TransportOutcomes :
        /\ Performed(Call("find_city", city, params, None), "find",
                     WrapGetParams(None, city, params), t, ReturnBare(Get(t)))
        /\ UNCHANGED <<appendix, url, settings, settings0, accVars>>

find_cities_by_geo_coord ==
    \E geo_coord \in GeoCoords, count \in Counts,
       params \in ParamsOver({"units", "cnt"}), t \in TransportOutcomes :
        LET params1 == SetItem(params, "cnt", count) IN
        /\ Performed(Call("find_cities_by_geo_coord", geo_coord, params, count),
                     "find", WrapGetParams(None, geo_coord, params1), t,
                     ReturnDataBlock(Get(t)))
        /\ UNCHANGED <<appendix, url, settings, settings0, accVars>>

get_current_from_station ==
    \E station_id \in StationIds, params \in ParamsOver({"units"}),
       t \in TransportOutcomes :
        /\ Performed(Call("get_current_from_station", station_id, params, None),
                     "station", WrapGetParams(None, station_id, params), t,
                     ReturnBare(Get(t)))
        /\ UNCHANGED <<appendix, url, settings, settings0, accVars>>

find_stations_by_geo_coord ==
    \E geo_coord \in GeoCoords, params \in ParamsOver({"units"}),
       t \in TransportOutcomes :
        /\ Performed(Call("find_stations_by_geo_coord", geo_coord, params, None),
                     "station/find", WrapGetParams(None, geo_coord, params), t,
                     ReturnDataBlock(Get(t)))
        /\ UNCHANGED <<appendix, url, settings, settings0, accVars>>

get_forecast_hourly ==
    \E city \in Locs, params \in ParamsOver({"units"}), t \in TransportOutcomes :
        /\ Performed(Call("get_forecast_hourly", city, params, None), "forecast",
                     WrapGetParams(None, city, params), t, ReturnDataBlock(Get(t)))
        /\ UNCHANGED <<appendix, url, settings, settings0, accVars>>

get_forecast_daily ==
    \E city \in Locs, params \in ParamsOver({"units"}), t \in TransportOutcomes :
        /\ Performed(Call("get_forecast_daily", city, params, None), "forecast/daily",
                     WrapGetParams(None, city, params), t, ReturnDataBlock(Get(t)))
        /\ UNCHANGED <<appendix, url, settings, settings0, accVars>>

get_history ==
    \E city \in Locs, params \in ParamsOver({"units"}), t \in TransportOutcomes :
        /\ Performed(Call("get_history", city, params, None), "history/city",
                     WrapGetParams(None, city, params), t, ReturnBare(Get(t)))
        /\ UNCHANGED <<appendix, url, settings, settings0, accVars>>

Next ==
    \/ WrappedCall
    \/ DecoratedCall
    \/ get_current
    \/ get_current_for_group
    \/ find_city
    \/ find_cities_by_geo_coord
    \/ get_current_from_station
    \/ find_stations_by_geo_coord
    \/ get_forecast_hourly
    \/ get_forecast_daily
    \/ get_history

Spec == Init /\ [][Next]_vars

-----------------------------------------------------------------------------
(* openweathermapy.utils.NestedDict: dotted-path access *)

Separator == "."

\* a path is the sequence of its characters
Alphabet == {"a", "b", Separator}
RECURSIVE SeqsUpTo(_, _)
SeqsUpTo(S, n) ==
    IF n = 0 THEN {<< >>}
    ELSE SeqsUpTo(S, n - 1) \cup {Append(q, x) : q \in SeqsUpTo(S, n - 1), x \in S}
Paths == SeqsUpTo(Alphabet, MaxPathLen)

\* keys of the mappings under test, as character sequences
KeyChars == {<<"a">>, <<"a", "b">>}
KeyOf(cs) == Join(cs, "")
Keys == {KeyOf(cs) : cs \in KeyChars}

Leaves == {PyFloat(280)}
DictsOver(values) == {PyDict(f) : f \in UNION {[K -> values] : K \in SUBSET Keys}}
Mappings == DictsOver(Leaves \cup DictsOver(Leaves))

RECURSIVE SplitFrom(_, _, _, _)
SplitFrom(chars, sep, cur, out) ==
    IF Len(chars) = 0 THEN Append(out, cur)
    ELSE IF Head(chars) = sep THEN SplitFrom(Tail(chars), sep, "", Append(out, cur))
    ELSE SplitFrom(Tail(chars), sep, cur \o Head(chars), out)

\* mutant of Split: the path is taken as one key
Split_Whole(chars, sep) == <<Join(chars, "")>>

\* path.split(sep)
Split(chars, sep) == SplitFrom(chars, sep, "", << >>)

RECURSIVE Walk(_, _)
\* look the segments up one after the other, starting from the mapping cur
Walk(cur, segs) ==
    IF Len(segs) = 0 THEN <<"return", cur>>
    ELSE IF TypeOf(cur) # "dict" THEN <<"raise", "TypeMismatch">>
    ELSE IF Head(segs) \notin DOMAIN cur[2] THEN <<"raise", "KeyNotFound">>
    ELSE Walk(cur[2][Head(segs)], Tail(segs))

\* accessor.get(path)
GetPath(a, chars) ==
    LET segs == Split(chars, Separator) IN
    IF \E i \in 1..Len(segs) : segs[i] = "" THEN <<"raise", "InvalidPath">>
    ELSE Walk(a[2], segs)

\* accessor(path): the call sugar for get
CallAccessor(a, chars) == GetPath(a, chars)

\* accessor[key]: a nested accessor for a mapping, the raw value otherwise
Subscript(a, key) ==
    IF TypeOf(a) # "NestedDict" THEN <<"raise", "TypeMismatch">>
    ELSE IF key \notin DOMAIN a[2][2] THEN <<"raise", "KeyNotFound">>
    ELSE IF TypeOf(a[2][2][key]) = "dict" THEN <<"return", NestedDict(a[2][2][key])>>
    ELSE <<"return", a[2][2][key]>>

InitAccessor ==
    /\ appendix = "weather"
    /\ url = BASE_URL \o appendix
    /\ settings = None
    /\ settings0 = None
    /\ call = Call("", None, EmptyDict, None)
    /\ transport = None
    /\ requests = << >>
    /\ result = None
    /\ parsed = None
    /\ heap = None
    /\ acc \in {NestedDict(m) : m \in Mappings}
    /\ path = << >>
    /\ got = None

\* data(p) on the accessor
AccessorCall ==
    \E p \in Paths :
        /\ path' = p
        /\ got' = CallAccessor(acc, p)
        /\ UNCHANGED <<acc, clientVars>>

NextAccessor == AccessorCall

SpecAccessor == InitAccessor /\ [][NextAccessor]_vars

-----------------------------------------------------------------------------
(* Properties *)

Called == call.fn # ""
Sent == requests[1][2]
HasItem(d, k, v) == k \in DOMAIN d /\ d[k] = v

\* functions that close over the settings given at construction
ClosureFns == {"wrap_get.call", "Decorator.call"}
EndpointFns ==
    {"get_current", "get_current_for_group", "find_city",
     "find_cities_by_geo_coord", "get_current_from_station",
     "find_stations_by_geo_coord", "get_forecast_hourly",
     "get_forecast_daily", "get_history"}

\* the settings in force for the most recent call, as a dict
SettingsInForce ==
    IF call.fn \in ClosureFns /\ TypeOf(settings0) = "dict" THEN settings0[2]
    ELSE EmptyDict

\* the keys a location identifies itself by, and their values
KindKeys(loc) ==
    CASE TypeOf(loc) = "int" -> {"id"}
      [] TypeOf(loc) = "tuple" -> {"lat", "lon"}
      [] TypeOf(loc) = "str" -> {"q"}
      [] OTHER -> {}
LocValue(loc, k) ==
    CASE k = "lat" -> loc[2]
      [] k = "lon" -> loc[3]
      [] OTHER -> loc

IdentifiedByKind(loc, sent) == \A k \in KindKeys(loc) : HasItem(sent, k, LocValue(loc, k))

\* the keys the called function writes itself
LocKeys(loc) == IF Truthy(loc) THEN {"loc"} \cup KindKeys(loc) ELSE {}
FnKeys(fn) ==
    CASE fn = "get_current_for_group" -> {"id"}
      [] fn = "find_cities_by_geo_coord" -> {"cnt"}
      [] OTHER -> {}
FnValue(c) ==
    IF c.fn = "get_current_for_group" THEN PyStr(IdStr(c.extra[2])) ELSE c.extra

AllKeys == OptionKeys \cup SettingsKeys \cup {"loc", "id", "lat", "lon", "q"}

\* C1: a function made by wrap_get(appendix) identifies the location by the
\* form matching its kind: id = loc for an integer, lat and lon for a pair,
\* q = loc for a name, and none of id, lat, lon, q is added when loc is
\* omitted; for every integer, pair and name.
C1_LocationByKind ==
    (Called /\ call.fn # "get_current_for_group" /\ DOMAIN SettingsInForce = {})
        => /\ IdentifiedByKind(call.loc, Sent)
           /\ TypeOf(call.loc) = "none" =>
                  \A k \in {"id", "lat", "lon", "q"} :
                      k \in DOMAIN Sent => HasItem(call.params, k, Sent[k])

\* C2: DataBlock(m) exposes the records of m["list"] in the same order and
\* number, each wrapped on its own, and info is an accessor over exactly the
\* other entries of m.
C2_DataBlockShape ==
    (Called /\ result[1] = "return" /\ TypeOf(result[2]) = "DataBlock")
        => LET m == parsed[2]
               items == result[2][2]
               info == result[2][3]
           IN  /\ Len(items) = Len(m["list"][2])
               /\ \A i \in 1..Len(items) : items[i] = <<"NestedDict", m["list"][2][i]>>
               /\ TypeOf(info) = "NestedDict"
               /\ DOMAIN info[2][2] = DOMAIN m \ {"list"}
               /\ \A k \in DOMAIN m \ {"list"} : info[2][2][k] = m[k]

C2_Witness ==
    /\ Called /\ result[1] = "return" /\ TypeOf(result[2]) = "DataBlock"
    /\ Len(result[2][2]) = MaxRecords
    /\ DOMAIN parsed[2] = {"list", "city"}

\* the key sequences and the dotted path that spells them
KeySeqs == SeqsUpTo(KeyChars, 3) \ {<< >>}
RECURSIVE DottedPath(_)
DottedPath(ks) ==
    IF Len(ks) = 1 THEN ks[1] ELSE ks[1] \o <<Separator>> \o DottedPath(Tail(ks))

RECURSIVE RawResolve(_, _)
\* m[k1][k2]...[kn] on the plain mapping
RawResolve(m, ks) ==
    IF Len(ks) = 0 THEN <<"ok", m>>
    ELSE IF TypeOf(m) # "dict" \/ KeyOf(Head(ks)) \notin DOMAIN m[2] THEN <<"fail">>
    ELSE RawResolve(m[2][KeyOf(Head(ks))], Tail(ks))

RECURSIVE ChainSubscript(_, _)
\* data[k1][k2]...[kn] on the accessor
ChainSubscript(a, ks) ==
    IF Len(ks) = 0 THEN <<"return", a>>
    ELSE LET r == Subscript(a, KeyOf(Head(ks))) IN
         IF r[1] = "raise" THEN r ELSE ChainSubscript(r[2], Tail(ks))

ResolvesToLeaf(m, ks) ==
    RawResolve(m, ks)[1] = "ok" /\ TypeOf(RawResolve(m, ks)[2]) # "dict"

\* C3: for a dotted path k1.k2...kn that resolves to a leaf v, data(p)
\* returns v, and that equals data[k1][k2]...[kn].
C3_DottedEqualsChained ==
    got # None =>
        \A ks \in KeySeqs :
            (DottedPath(ks) = path /\ ResolvesToLeaf(acc[2], ks))
                => /\ got = <<"return", RawResolve(acc[2], ks)[2]>>
                   /\ got = ChainSubscript(acc, ks)

C3_Witness ==
    /\ got = <<"return", PyFloat(280)>>
    /\ \E ks \in KeySeqs : Len(ks) = 2 /\ DottedPath(ks) = path /\ Len(ks[2]) = 2

\* C4: every endpoint function returns the parsed response wrapped, never
\* the bare parsed mapping.
C4_AlwaysWrapped ==
    (call.fn \in EndpointFns /\ result[1] = "return")
        => TypeOf(result[2]) \in {"NestedDict", "WeatherData", "DataBlock"}

\* C5 as stated: every option the caller passes reaches the transport under
\* the same key with the caller's value.
C5_ForwardedVerbatim ==
    Called => \A k \in DOMAIN call.params : HasItem(Sent, k, call.params[k])

\* C5 amended: every option the caller passes reaches the transport under the
\* same key with the caller's value, except under a key the function writes
\* itself: loc and id / lat, lon / q for a location taken as present, id in
\* get_current_for_group, cnt in find_cities_by_geo_coord, and every key of
\* the settings.
C5_ForwardedUnlessWritten ==
    Called =>
        \A k \in DOMAIN call.params \
                 (LocKeys(call.loc) \cup FnKeys(call.fn) \cup DOMAIN SettingsInForce) :
            HasItem(Sent, k, call.params[k])

C5_Witness ==
    /\ Called /\ Truthy(call.loc)
    /\ DOMAIN call.params = {"units", "id"}
    /\ HasItem(Sent, "units", CallerValue)
    /\ ~HasItem(Sent, "id", CallerValue)

\* C6: a decorated function performs the request of the wrap_get function
\* and returns data_type(data) when a data_type was passed, the parsed data
\* otherwise, whenever the request succeeds.
C6_DecoratorResult ==
    (call.fn = "Decorator.call" /\ parsed # None)
        => /\ result[1] = "return"
           /\ Truthy(call.extra) => result[2] = <<"WeatherData", parsed>>
           /\ ~Truthy(call.extra) => result[2] = parsed

\* C7: every call hands exactly one request to the transport; a transport
\* failure or an invalid body is raised to the caller as it is, with no
\* second request and no result returned.
C7_OneRequestNoRetry ==
    Called =>
        /\ Len(requests) = 1
        /\ transport[1] = "HTTPError" => result = <<"raise", "HTTPError">>
        /\ (transport[1] = "body" /\ ~transport[2]) => result = <<"raise", "ParseError">>

C7_Witness ==
    /\ call.fn \in EndpointFns
    /\ transport[1] = "HTTPError"
    /\ result = <<"raise", "HTTPError">>
    /\ Len(requests) = 1

\* C8: constructing a wrapper over a parsed mapping leaves the mapping with
\* the keys and values it had.
C8_WrappingKeepsMapping ==
    (Called /\ parsed # None) => heap = parsed

\* C9: calls share no mutable state: url and settings stay as constructed,
\* and the params of a call are fixed by its own arguments and the settings,
\* key by key.
C9_NoSharedState ==
    /\ settings = settings0
    /\ url = BASE_URL \o appendix
    /\ Called =>
           /\ requests[1][1] \in {BASE_URL \o a : a \in
                  {"weather", "group", "find", "station", "station/find",
                   "forecast", "forecast/daily", "history/city"}}
           /\ call.fn \in ClosureFns => requests[1][1] = url
           /\ DOMAIN Sent \subseteq AllKeys
           /\ \A k \in AllKeys :
                  IF k \in DOMAIN SettingsInForce THEN HasItem(Sent, k, SettingsInForce[k])
                  ELSE IF k \in LocKeys(call.loc)
                       THEN HasItem(Sent, k, LocValue(call.loc, k))
                  ELSE IF k \in FnKeys(call.fn) THEN HasItem(Sent, k, FnValue(call))
                  ELSE IF k \in DOMAIN call.params THEN HasItem(Sent, k, call.params[k])
                  ELSE k \notin DOMAIN Sent

C9_Witness ==
    /\ call.fn = "wrap_get.call"
    /\ Truthy(settings) /\ DOMAIN settings[2] = {"units"}
    /\ DOMAIN call.params = {"units", "id"}
    /\ result[1] = "return"

\* C10 as stated: with a location taken as present the params hold the
\* kind's key(s) and "loc" with the raw location; with none, no "loc".
C10_LocKey ==
    Called =>
        IF Truthy(call.loc)
        THEN HasItem(Sent, "loc", call.loc) /\ IdentifiedByKind(call.loc, Sent)
        ELSE "loc" \notin DOMAIN Sent

\* C10 amended: with a location taken as present the params hold the kind's
\* key(s) and "loc" with the raw location, each unless the settings hold the
\* same key, whose value is then the settings' one; with no location "loc"
\* is in the params only when the settings hold it.
C10_LocKeyUnlessSettings ==
    Called =>
        /\ \A k \in DOMAIN SettingsInForce : HasItem(Sent, k, SettingsInForce[k])
        /\ IF Truthy(call.loc)
           THEN \A k \in ({"loc"} \cup KindKeys(call.loc)) \ DOMAIN SettingsInForce :
                    HasItem(Sent, k, LocValue(call.loc, k))
           ELSE "loc" \in DOMAIN Sent => "loc" \in DOMAIN SettingsInForce

C10_Witness ==
    /\ Called /\ TypeOf(call.loc) = "tuple"
    /\ HasItem(Sent, "loc", call.loc)
    /\ HasItem(Sent, "lat", call.loc[2]) /\ HasItem(Sent, "lon", call.loc[3])

====
